---- MODULE Spec2Model ----
(***************************************************************************)
(* PythonWebServer: the request handler of src/main.py (authentication,    *)
(* dispatch, response emission) over the resource provider of              *)
(* src/resources.py (catalog, URL tokens, rendering, resource access).     *)
(*                                                                         *)
(* A Python str is a sequence of characters, each a one-character string;  *)
(* a bytes object is a sequence of numbers in 0..255.  Python's None and   *)
(* raised exceptions are records tagged by a "kind" field.                 *)
(***************************************************************************)
EXTENDS Integers, Sequences, FiniteSets, TLC

VARIABLES
  resources,  \* RequestHandler.resources: the ResourceProvider built at startup
  fs,         \* the filesystem: normalized path -> file content, or Missing
  worker,     \* one record per request-handling thread of ThreadingHTTPServer
  serverUp,   \* serve_forever() is still running
  fsOps       \* every path handed to os.stat/open while handling requests

vars == <<resources, fs, worker, serverUp, fsOps>>

\* Threads handling requests concurrently in the concurrent specification.
NumWorkers == 2
\* Hex digits kept of a digest (the real sha1 has 40, sha256 has 64).
DigestLen == 2
\* The chunk size a bounded-size forward pass would have to respect.
ChunkBound == 2

None == [kind |-> "None"]
Missing == [kind |-> "missing"]

----------------------------------------------------------------------------
\* Characters, str methods and encodings.

\* The printable ASCII characters in code point order: 32..95, then 97..126.
AsciiLow ==
  <<" ", "!", "\"", "#", "$", "%", "&", "'", "(", ")", "*", "+", ",", "-", ".", "/", "0", "1",
    "2", "3", "4", "5", "6", "7", "8", "9", ":", ";", "<", "=", ">", "?", "@", "A", "B", "C",
    "D", "E", "F", "G", "H", "I", "J", "K", "L", "M", "N", "O", "P", "Q", "R", "S", "T", "U",
    "V", "W", "X", "Y", "Z", "[", "\\", "]", "^", "_">>
AsciiHigh ==
  <<"a", "b", "c", "d", "e", "f", "g", "h", "i", "j", "k", "l", "m", "n", "o", "p", "q", "r",
    "s", "t", "u", "v", "w", "x", "y", "z", "{", "|", "}", "~">>

\* chr(n) for a printable ASCII code point other than 96.
Chr(n) == IF n < 96 THEN AsciiLow[n - 31] ELSE AsciiHigh[n - 96]

Whitespace == {" ", "\t", "\n", "\r", "\f"}

\* The characters of the model's strings.
Chars ==
  {AsciiLow[i] : i \in 1..Len(AsciiLow)} \cup {AsciiHigh[i] : i \in 1..Len(AsciiHigh)}
  \cup {"è", "È", "€", "\t", "\n", "\f", "\r"}

\* The code point of each character.
CodePoint ==
  [c \in Chars |->
     CASE c = "è" -> 232
       [] c = "È" -> 200
       [] c = "€" -> 8364
       [] c = "\t" -> 9
       [] c = "\n" -> 10
       [] c = "\f" -> 12
       [] c = "\r" -> 13
       [] \E i \in 1..Len(AsciiLow) : AsciiLow[i] = c ->
            31 + (CHOOSE i \in 1..Len(AsciiLow) : AsciiLow[i] = c)
       [] OTHER -> 96 + (CHOOSE i \in 1..Len(AsciiHigh) : AsciiHigh[i] = c)]

\* ord(c)
Ord(c) == CodePoint[c]

\* str.lower() on one character.
LowerChar(c) ==
  IF c = "È" THEN "è"
  ELSE IF c \in {"è", "€", "\t", "\n", "\f", "\r"} THEN c
  ELSE LET n == Ord(c) IN IF n \in 65..90 THEN Chr(n + 32) ELSE c

\* str.upper() on one character (used to build request paths only).
UpperChar(c) ==
  IF c = "è" THEN "È"
  ELSE IF c \in {"È", "€", "\t", "\n", "\f", "\r"} THEN c
  ELSE LET n == Ord(c) IN IF n \in 97..122 THEN Chr(n - 32) ELSE c

Lower(s) == [i \in 1..Len(s) |-> LowerChar(s[i])]
Upper(s) == [i \in 1..Len(s) |-> UpperChar(s[i])]

\* The UTF-8 bytes of each character (code points below 65536).
Utf8Bytes ==
  [c \in Chars |->
     LET n == CodePoint[c] IN
     IF n < 128 THEN <<n>>
     ELSE IF n < 2048 THEN <<192 + (n \div 64), 128 + (n % 64)>>
     ELSE <<224 + (n \div 4096), 128 + ((n \div 64) % 64), 128 + (n % 64)>>]

Utf8(c) == Utf8Bytes[c]

\* str.encode("utf-8"): the characters' bytes in order (computed by halves).
RECURSIVE Encode(_)
Encode(s) ==
  IF s = <<>> THEN <<>>
  ELSE IF Len(s) = 1 THEN Utf8(s[1])
  ELSE LET m == Len(s) \div 2
       IN Encode(SubSeq(s, 1, m)) \o Encode(SubSeq(s, m + 1, Len(s)))

\* "".join(s.split()): s with every whitespace character removed.
RemoveWhitespace(s) == SelectSeq(s, LAMBDA c : c \notin Whitespace)

\* s.split(sep) for a one-character separator.
RECURSIVE Split(_, _)
Split(s, sep) ==
  IF \A i \in 1..Len(s) : s[i] # sep THEN <<s>>
  ELSE LET i == CHOOSE k \in 1..Len(s) : s[k] = sep /\ \A j \in 1..(k - 1) : s[j] # sep
       IN <<SubSeq(s, 1, i - 1)>> \o Split(SubSeq(s, i + 1, Len(s)), sep)

\* sep.join(parts)
RECURSIVE Join(_, _)
Join(parts, sep) ==
  IF parts = <<>> THEN <<>>
  ELSE IF Len(parts) = 1 THEN parts[1]
  ELSE parts[1] \o <<sep>> \o Join(Tail(parts), sep)

\* "%s" % n for a non-negative int.
RECURSIVE Decimal(_)
Decimal(n) ==
  IF n < 10 THEN <<Chr(n + 48)>>
  ELSE Decimal(n \div 10) \o <<Chr((n % 10) + 48)>>

\* A digest of DigestLen hex digits standing for hashlib's: a deterministic,
\* many-to-one function of the bytes, rendered as lowercase hex.
RECURSIVE DigestValue(_, _, _)
DigestValue(bytes, h, mult) ==
  IF bytes = <<>> THEN h
  ELSE DigestValue(Tail(bytes), (h * mult + Head(bytes)) % (16 ^ DigestLen), mult)

HexDigits == <<"0", "1", "2", "3", "4", "5", "6", "7", "8", "9", "a", "b", "c", "d", "e", "f">>

hexdigest(n) == [i \in 1..DigestLen |-> HexDigits[((n \div (16 ^ (DigestLen - i))) % 16) + 1]]

sha1(bytes) == hexdigest(DigestValue(bytes, 7, 31))
sha256(bytes) == hexdigest(DigestValue(bytes, 11, 37))

\* os.path.normpath (posixpath): the loop over the path's components.
RECURSIVE NormComps(_, _, _)
NormComps(comps, new_comps, initial_slashes) ==
  IF comps = <<>> THEN new_comps
  ELSE LET comp == Head(comps)
           rest == Tail(comps)
       IN IF comp = <<>> \/ comp = <<".">>
          THEN NormComps(rest, new_comps, initial_slashes)
          ELSE IF \/ comp # <<".", ".">>
                  \/ (initial_slashes = 0 /\ new_comps = <<>>)
                  \/ (new_comps # <<>> /\ new_comps[Len(new_comps)] = <<".", ".">>)
          THEN NormComps(rest, Append(new_comps, comp), initial_slashes)
          ELSE IF new_comps # <<>>
          THEN NormComps(rest, SubSeq(new_comps, 1, Len(new_comps) - 1), initial_slashes)
          ELSE NormComps(rest, new_comps, initial_slashes)

\* os.path.normpath (posixpath)
normpath(path) ==
  IF path = <<>> THEN <<".">>
  ELSE LET initial_slashes ==
             IF path[1] # "/" THEN 0
             ELSE IF Len(path) >= 2 /\ path[2] = "/" /\ ~(Len(path) >= 3 /\ path[3] = "/")
             THEN 2 ELSE 1
           joined == Join(NormComps(Split(path, "/"), <<>>, initial_slashes), "/")
           full == [i \in 1..initial_slashes |-> "/"] \o joined
       IN IF full = <<>> THEN <<".">> ELSE full

----------------------------------------------------------------------------
\* The configuration document and the filesystem at startup.

N_Caffe ==
  <<"C", "a", "f", "f", "è">>
N_Modulo ==
  <<"M", "o", "d", "u", "l", "o">>
N_mo_dulo ==
  <<"m", "o", " ", "d", "u", "l", "o">>
N_Orari ==
  <<"O", "r", "a", "r", "i">>
P_modulo ==
  <<".", "/", "d", "o", "c", "s", "/", "m", "o", "d", "u", "l", "o", ".", "p", "d", "f">>
P_orari ==
  <<"d", "o", "c", "s", "/", "o", "r", "a", "r", "i", ".", "p", "d", "f">>
T_0800 ==
  <<"0", "8", ":", "0", "0">>
T_1200 ==
  <<"1", "2", ":", "0", "0">>
U_alice ==
  <<"a", "l", "i", "c", "e">>
U_carol ==
  <<"c", "a", "r", "o", "l">>
U_bob ==
  <<"b", "o", "b">>
PW_pw ==
  <<"p", "w">>
PW_bad ==
  <<"b", "a", "d">>
PW_p_q ==
  <<"p", ":", "q">>
PW_pw_x ==
  <<"p", "w", ":", "x">>
Realm ==
  <<"O", "s", "p", "e", "d", "a", "l", "e">>

\* The parsed config.json: two pages, two files (the first file's name
\* normalizes like the second page's), two users.
Config ==
  [pages |-> <<[name |-> N_Caffe, corridor |-> <<"A">>, room |-> <<"1", "2">>,
                times |-> <<[start |-> T_0800, end |-> T_1200]>>],
               [name |-> N_Modulo, corridor |-> <<"€">>, room |-> <<"3">>,
                times |-> <<>>]>>,
   files |-> <<[name |-> N_mo_dulo, path |-> P_modulo],
               [name |-> N_Orari, path |-> P_orari]>>,
   authentication |->
     [realm |-> Realm,
      users |-> <<[name |-> U_alice, passwd_sha |-> sha256(Encode(PW_pw))],
                  [name |-> U_carol, passwd_sha |-> sha256(Encode(PW_p_q))]>>]]

\* The files on disk when the server starts: path -> content bytes.
InitFs ==
  [p \in {normpath(P_modulo), normpath(P_orari)} |->
     IF p = normpath(P_modulo) THEN <<37, 80, 68, 70, 45, 49, 10>>
     ELSE <<79, 114, 97, 114, 105, 10>>]

\* os.path.exists
exists(filesystem, path) ==
  normpath(path) \in DOMAIN filesystem /\ filesystem[normpath(path)] # Missing

----------------------------------------------------------------------------
\* resources.py: the data classes.

ResourceData(name) ==
  [name |-> name, url |-> sha1(Encode(RemoveWhitespace(Lower(name))))]

PageData(name, corridor, room, times) ==
  [name |-> name, url |-> ResourceData(name).url,
   corridor |-> corridor, room |-> room, times |-> times]

FileData(name, path) ==
  [name |-> name, url |-> ResourceData(name).url, path |-> normpath(path)]

\* ResourceAccess.from_html: the length is len(html), the stream a BytesIO
\* over the encoded html.
from_html(name, html) ==
  [name |-> name,
   length |-> [type |-> "int", value |-> Len(html)],
   stream |-> [kind |-> "BytesIO", name |-> <<>>, data |-> Encode(html), closed |-> FALSE]]

\* ResourceAccess.from_file: the length is the os.stat_result itself, the
\* stream the file opened for reading; both raise when the file is gone.
from_file(name, path, filesystem) ==
  IF ~exists(filesystem, path)
  THEN [kind |-> "raise", exc |-> "FileNotFoundError", filename |-> path]
  ELSE [name |-> name,
        length |-> [type |-> "os.stat_result", st_size |-> Len(filesystem[normpath(path)])],
        stream |-> [kind |-> "file", name |-> path,
                    data |-> filesystem[normpath(path)], closed |-> FALSE]]

\* "%s" % value, as send_header formats a header's value.
StatResultOpen ==
  <<"o", "s", ".", "s", "t", "a", "t", "_", "r", "e", "s", "u", "l", "t", "(", "s", "t", "_",
    "s", "i", "z", "e", "=">>
Str(value) ==
  IF value.type = "int" THEN Decimal(value.value)
  ELSE StatResultOpen \o Decimal(value.st_size) \o <<")">>

----------------------------------------------------------------------------
\* resources.py: ResourceProvider.

STYLE ==
  <<"b", "o", "d", "y", "{", "m", "a", "r", "g", "i", "n", ":", "4", "4", "p", "x", ";", "a",
    "u", "t", "o", ";", "m", "a", "x", "-", "w", "i", "d", "t", "h", ":", "6", "5", "0", "p",
    "x", ";", "l", "i", "n", "e", "-", "h", "e", "i", "g", "h", "t", ":", "1", ".", "8", ";",
    "f", "o", "n", "t", "-", "s", "i", "z", "e", ":", "1", "6", "p", "x", ";", "c", "o", "l",
    "o", "r", ":", "#", "4", "4", "4", ";", "p", "a", "d", "d", "i", "n", "g", ":", "0", ";",
    "1", "0", "p", "x", "}", "h", "1", "{", "l", "i", "n", "e", "-", "h", "e", "i", "g", "h",
    "t", ":", "1", ".", "5", "}">>
H_title ==
  <<"<", "h", "t", "m", "l", ">", "<", "h", "e", "a", "d", ">", "<", "t", "i", "t", "l", "e",
    ">">>
H_style ==
  <<"<", "/", "t", "i", "t", "l", "e", ">", "<", "s", "t", "y", "l", "e", " ", "t", "y", "p",
    "e", "=", "\"", "t", "e", "x", "t", "/", "c", "s", "s", "\"", ">">>
H_body ==
  <<"<", "/", "s", "t", "y", "l", "e", ">", "<", "/", "h", "e", "a", "d", ">", "<", "b", "o",
    "d", "y", ">", "<", "h", "1", ">">>
H_end ==
  <<"<", "/", "h", "1", ">">>
FOOTER ==
  <<"<", "/", "b", "o", "d", "y", ">", "<", "/", "h", "t", "m", "l", ">">>
I_p ==
  <<"<", "p", ">">>
I_p_end ==
  <<"<", "/", "p", ">">>
I_a ==
  <<"<", "p", ">", "<", "a", " ", "h", "r", "e", "f", "=", "\"">>
I_a_mid ==
  <<"\"", ">">>
I_a_end ==
  <<"<", "/", "a", ">", "<", "/", "p", ">">>
G_corridoio ==
  <<"<", "p", ">", "C", "o", "r", "r", "i", "d", "o", "i", "o", " ">>
G_stanza ==
  <<" ", "s", "t", "a", "n", "z", "a", " ">>
G_table ==
  <<"<", "/", "p", ">", "<", "t", "a", "b", "l", "e", " ", "b", "o", "r", "d", "e", "r", "=",
    "\"", "2", "\"", ">", "<", "t", "r", ">", "<", "t", "h", ">", "D", "a", "l", "l", "e", "<",
    "/", "t", "h", ">", "<", "t", "h", ">", "A", "l", "l", "e", "<", "/", "t", "h", ">">>
G_tr ==
  <<"<", "t", "r", ">", "<", "t", "d", ">">>
G_td ==
  <<"<", "/", "t", "d", ">", "<", "t", "d", ">">>
G_td_end ==
  <<"<", "/", "t", "d", ">">>
G_table_end ==
  <<"<", "/", "t", "a", "b", "l", "e", ">">>
BR ==
  <<"<", "b", "r", "/", ">">>
S_servizi_ospedalieri ==
  <<"S", "e", "r", "v", "i", "z", "i", " ", "o", "s", "p", "e", "d", "a", "l", "i", "e", "r",
    "i">>
S_servizi ==
  <<"S", "e", "r", "v", "i", "z", "i">>
S_documenti ==
  <<"D", "o", "c", "u", "m", "e", "n", "t", "i">>
S_ospedale ==
  <<"O", "s", "p", "e", "d", "a", "l", "e">>
S_pagina_sconosciuta ==
  <<"P", "a", "g", "i", "n", "a", " ", "s", "c", "o", "n", "o", "s", "c", "i", "u", "t", "a">>
S_non_trovato ==
  <<"'", " ", "n", "o", "n", " ", "t", "r", "o", "v", "a", "t", "o">>

draw_header(title) == H_title \o title \o H_style \o STYLE \o H_body \o title \o H_end

draw_footer == FOOTER

RECURSIVE draw_index_rows(_)
draw_index_rows(data) ==
  IF data = <<>> THEN <<>>
  ELSE I_a \o Head(data).url \o I_a_mid \o Head(data).name \o I_a_end
       \o draw_index_rows(Tail(data))

draw_index(title, data) == I_p \o title \o I_p_end \o draw_index_rows(data)

RECURSIVE draw_page_rows(_)
draw_page_rows(times) ==
  IF times = <<>> THEN <<>>
  ELSE G_tr \o Head(times)[1] \o G_td \o Head(times)[2] \o G_td_end
       \o draw_page_rows(Tail(times))

draw_page(page) ==
  G_corridoio \o page.corridor \o G_stanza \o page.room \o G_table
  \o draw_page_rows(page.times) \o G_table_end

times_convert(dict_list) == [i \in 1..Len(dict_list) |-> <<dict_list[i].start, dict_list[i].end>>]

json_page_to_data(json) ==
  PageData(json.name, json.corridor, json.room, times_convert(json.times))

\* The dict comprehension: a later pair with the same name replaces an earlier one.
json_user_to_dict(json) ==
  [n \in {json[i].name : i \in 1..Len(json)} |->
     json[CHOOSE i \in 1..Len(json) :
            json[i].name = n /\ \A j \in (i + 1)..Len(json) : json[j].name # n].passwd_sha]

\* ResourceProvider.__init__: raises when a configured file does not exist.
ResourceProvider(config, filesystem) ==
  IF \E i \in 1..Len(config.files) : ~exists(filesystem, config.files[i].path)
  THEN [kind |-> "raise", exc |-> "IOError"]
  ELSE [pages |-> [i \in 1..Len(config.pages) |-> json_page_to_data(config.pages[i])],
        files |-> [i \in 1..Len(config.files) |->
                     FileData(config.files[i].name, config.files[i].path)],
        realm |-> config.authentication.realm,
        users |-> json_user_to_dict(config.authentication.users)]

get_index(res) ==
  from_html(S_ospedale,
            draw_header(S_servizi_ospedalieri) \o draw_index(S_servizi, res.pages) \o BR
            \o draw_index(S_documenti, res.files) \o draw_footer)

\* The first page whose url is the given one, or None.
get_page(res, url) ==
  IF \E i \in 1..Len(res.pages) : res.pages[i].url = url
  THEN LET p == res.pages[CHOOSE i \in 1..Len(res.pages) :
                    res.pages[i].url = url /\ \A j \in 1..(i - 1) : res.pages[j].url # url]
       IN from_html(p.name, draw_header(p.name) \o draw_page(p) \o draw_footer)
  ELSE None

get_error(res, url) ==
  from_html(S_pagina_sconosciuta, draw_header(<<"'">> \o url \o S_non_trovato) \o draw_footer)

\* Mutant of get_file: the file is opened from the normalized request path.
get_file_opens_url(res, given, filesystem) ==
  LET url == normpath(given) IN
  IF \E i \in 1..Len(res.files) : res.files[i].url = url
  THEN LET f == res.files[CHOOSE i \in 1..Len(res.files) :
                    res.files[i].url = url /\ \A j \in 1..(i - 1) : res.files[j].url # url]
       IN from_file(f.name, url, filesystem)
  ELSE None

\* The first file whose url is the normalized given one, opened from its
\* stored path, or None.
get_file(res, given, filesystem) ==
  LET url == normpath(given) IN
  IF \E i \in 1..Len(res.files) : res.files[i].url = url
  THEN LET f == res.files[CHOOSE i \in 1..Len(res.files) :
                    res.files[i].url = url /\ \A j \in 1..(i - 1) : res.files[j].url # url]
       IN from_file(f.name, f.path, filesystem)
  ELSE None

get_authentication_realm(res) == res.realm

is_user_authenticated(res, name, passwd_sha) ==
  IF name \in DOMAIN res.users THEN res.users[name] = passwd_sha ELSE FALSE

----------------------------------------------------------------------------
\* main.py: RequestHandler.

INDEX_HTML ==
  <<"/", "i", "n", "d", "e", "x", ".", "h", "t", "m", "l">>
INDEX_HTM ==
  <<"/", "i", "n", "d", "e", "x", ".", "h", "t", "m">>
TEXT_HTML ==
  <<"t", "e", "x", "t", "/", "h", "t", "m", "l">>
OCTET_STREAM ==
  <<"a", "p", "p", "l", "i", "c", "a", "t", "i", "o", "n", "/", "o", "c", "t", "e", "t", "-",
    "s", "t", "r", "e", "a", "m">>
INLINE ==
  <<"i", "n", "l", "i", "n", "e">>
ATTACHMENT ==
  <<"a", "t", "t", "a", "c", "h", "m", "e", "n", "t">>
BASIC ==
  <<"B", "a", "s", "i", "c">>
BASIC_REALM ==
  <<"B", "a", "s", "i", "c", " ", "r", "e", "a", "l", "m", "=", "\"">>
FILENAME ==
  <<";", " ", "f", "i", "l", "e", "n", "a", "m", "e", "=", "\"">>

path_is_index(path) == path = <<"/">> \/ path = INDEX_HTML \/ path = INDEX_HTM

\* __try_get_html: the index or a page for the lower-cased self.path, else None.
try_get_html(res, selfpath) ==
  LET path == Lower(selfpath) IN
  IF path_is_index(path)
  THEN [code |-> 200, resource |-> get_index(res),
        content_type |-> TEXT_HTML, disposition |-> INLINE]
  ELSE LET page == get_page(res, SubSeq(path, 2, Len(path))) IN
       IF page # None
       THEN [code |-> 200, resource |-> page,
             content_type |-> TEXT_HTML, disposition |-> INLINE]
       ELSE None

\* __try_get_file: the file for "." + path, else None; from_file may raise.
try_get_file(res, path, filesystem) ==
  LET file == get_file(res, <<".">> \o path, filesystem) IN
  IF file = None THEN None
  ELSE IF "kind" \in DOMAIN file THEN file
  ELSE [code |-> 200, resource |-> file,
        content_type |-> OCTET_STREAM, disposition |-> ATTACHMENT]

\* Mutant of get_not_found: the error page is given the lower-cased path.
get_not_found_lowered(res, path) ==
  [code |-> 404, resource |-> get_error(res, Lower(path)),
   content_type |-> TEXT_HTML, disposition |-> INLINE]

get_not_found(res, path) ==
  [code |-> 404, resource |-> get_error(res, path),
   content_type |-> TEXT_HTML, disposition |-> INLINE]

\* Mutant of dispatch: a file is tried before the html pages.
dispatch_file_first(res, path, filesystem) ==
  LET file == try_get_file(res, path, filesystem) IN
  IF file # None THEN file
  ELSE LET html == try_get_html(res, path) IN
       IF html # None THEN html ELSE get_not_found(res, path)

\* __dispatch: html first, then a file, then the error page.
dispatch(res, path, filesystem) ==
  LET html == try_get_html(res, path) IN
  IF html # None THEN html
  ELSE LET file == try_get_file(res, path, filesystem) IN
       IF file # None THEN file ELSE get_not_found(res, path)

\* The request headers: a function from header names to values.  The value of
\* Authorization is the list of its whitespace-separated words, the second
\* given by what base64.b64decode and the utf-8 decoding make of it: the
\* decoded text, or the exception they raise.
NoHeaders == [h \in {} |-> <<>>]

Authorization(words) == [h \in {"Authorization"} |-> words]

Decoded(text) == [kind |-> "str", text |-> text]

Undecodable == [kind |-> "raise", exc |-> "binascii.Error"]

\* __client_is_authenticated: returns a boolean, or raises.
client_is_authenticated(res, headers) ==
  IF "Authorization" \notin DOMAIN headers THEN [kind |-> "return", value |-> FALSE]
  ELSE LET words == headers["Authorization"] IN
       IF Len(words) < 2 THEN [kind |-> "raise", exc |-> "IndexError"]
       ELSE IF words[2].kind = "raise" THEN words[2]
       ELSE LET credentials == Split(words[2].text, ":") IN
            IF Len(credentials) < 2 THEN [kind |-> "raise", exc |-> "IndexError"]
            ELSE [kind |-> "return",
                  value |-> is_user_authenticated(res, credentials[1],
                                                  sha256(Encode(credentials[2])))]

\* send_header(keyword, value)
send_header(keyword, value) == <<keyword, value>>

----------------------------------------------------------------------------
\* The server: one thread per request over the shared ResourceProvider.

Idle ==
  [pc |-> "idle", headers |-> NoHeaders, path |-> <<>>, dispatched |-> FALSE,
   result |-> None, buf |-> <<>>, response |-> None, exc |-> None]

\* get_server and the startup lines: the provider is built from the config.
InitServer ==
  /\ fs = InitFs
  /\ resources = ResourceProvider(Config, InitFs)
  /\ serverUp = TRUE
  /\ fsOps = {}

\* A connection arrives: ThreadingHTTPServer hands it to a thread, which
\* parses the request line and headers and calls do_GET.
Receive(w, req) ==
  /\ serverUp
  /\ worker[w].pc \in {"idle", "done", "error"}
  /\ worker' = [worker EXCEPT ![w] =
                  [Idle EXCEPT !.pc = "do_GET", !.headers = req.headers, !.path = req.path]]
  /\ UNCHANGED <<resources, fs, serverUp, fsOps>>

\* The worker's part of an exception leaving do_GET: the request ends where
\* the exception is raised (dispatched: __dispatch was entered).
Raised(w, e) ==
  [worker EXCEPT ![w].pc = "error", ![w].exc = e,
                 ![w].dispatched = (worker[w].pc # "do_GET")]

\* Mutant of Raise: an exception in a handler thread ends serve_forever.
RaiseStopsServer(w, e) ==
  /\ worker' = Raised(w, e)
  /\ serverUp' = FALSE

\* An exception leaves do_GET in a thread of ThreadingHTTPServer: that
\* thread's request ends (the exception is reported, the connection closed),
\* serve_forever goes on.
Raise(w, e) ==
  /\ worker' = Raised(w, e)
  /\ serverUp' = serverUp

\* __request_authentication
request_authentication(res) ==
  [status |-> 401,
   headers |-> <<send_header("WWW-Authenticate",
                             BASIC_REALM \o get_authentication_realm(res) \o <<"\"">>)>>,
   body |-> <<>>]

\* do_GET: authenticate, then either go on to __handle_GET or ask for
\* authentication.
DoGET(w) ==
  /\ serverUp
  /\ worker[w].pc = "do_GET"
  /\ LET r == client_is_authenticated(resources, worker[w].headers) IN
       IF r.kind = "raise" THEN Raise(w, r)
       ELSE IF r.value
       THEN /\ worker' = [worker EXCEPT ![w].pc = "dispatch"]
            /\ UNCHANGED serverUp
       ELSE /\ worker' = [worker EXCEPT ![w].pc = "done",
                                        ![w].response = request_authentication(resources)]
            /\ UNCHANGED serverUp
  /\ UNCHANGED <<resources, fs, fsOps>>

\* The paths a dispatch result shows to have been given to os.stat/open.
FsTouched(d) ==
  IF "kind" \in DOMAIN d THEN {d.filename}
  ELSE IF d.resource.stream.kind = "file" THEN {d.resource.stream.name}
  ELSE {}

\* __handle_GET, first line: self.__dispatch(self.path).
Dispatch(w) ==
  /\ serverUp
  /\ worker[w].pc = "dispatch"
  /\ LET d == dispatch(resources, worker[w].path, fs) IN
       /\ fsOps' = fsOps \cup FsTouched(d)
       /\ IF "kind" \in DOMAIN d
          THEN Raise(w, d)
          ELSE /\ worker' = [worker EXCEPT ![w].pc = "send_headers", ![w].result = d,
                                           ![w].dispatched = TRUE]
               /\ UNCHANGED serverUp
  /\ UNCHANGED <<resources, fs>>

\* __handle_GET: send_response and the three send_header calls for a
\* dispatch result.
response_head(d) ==
  [status |-> d.code,
   headers |-> <<send_header("Content-type", d.content_type),
                 send_header("Content-length", Str(d.resource.length)),
                 send_header("Content-Disposition",
                             d.disposition \o FILENAME \o d.resource.name \o <<"\"">>)>>,
   body |-> <<>>]

\* __handle_GET: the status line and headers go out at end_headers.
SendHeaders(w) ==
  /\ serverUp
  /\ worker[w].pc = "send_headers"
  /\ worker' = [worker EXCEPT ![w].pc = "read_stream",
                              ![w].response = response_head(worker[w].result)]
  /\ UNCHANGED <<resources, fs, serverUp, fsOps>>

\* __handle_GET: resource.stream.read() returns the whole content.
ReadStream(w) ==
  /\ serverUp
  /\ worker[w].pc = "read_stream"
  /\ worker' = [worker EXCEPT ![w].pc = "write_body",
                              ![w].buf = worker[w].result.resource.stream.data]
  /\ UNCHANGED <<resources, fs, serverUp, fsOps>>

\* __handle_GET: self.wfile.write(...) of what was read.
WriteBody(w) ==
  /\ serverUp
  /\ worker[w].pc = "write_body"
  /\ worker' = [worker EXCEPT ![w].pc = "close",
                              ![w].response.body = worker[w].buf]
  /\ UNCHANGED <<resources, fs, serverUp, fsOps>>

\* __handle_GET, last line: resource.stream.close(), then the method returns.
CloseStream(w) ==
  /\ serverUp
  /\ worker[w].pc = "close"
  /\ worker' = [worker EXCEPT ![w].pc = "done", ![w].buf = <<>>,
                              ![w].result.resource.stream.closed = TRUE]
  /\ UNCHANGED <<resources, fs, serverUp, fsOps>>

\* Writing to the client or reading the stream fails (the client went away,
\* the disk failed): the exception leaves __handle_GET where it is raised.
IOFailure(w) ==
  /\ serverUp
  /\ worker[w].pc \in {"send_headers", "read_stream", "write_body"}
  /\ Raise(w, [kind |-> "raise", exc |-> "OSError"])
  /\ UNCHANGED <<resources, fs, fsOps>>

\* Someone removes a configured file while the server runs.
RemoveFile(p) ==
  /\ fs[p] # Missing
  /\ fs' = [fs EXCEPT ![p] = Missing]
  /\ UNCHANGED <<resources, worker, serverUp, fsOps>>

----------------------------------------------------------------------------
\* Requests.

TokCaffe == ResourceData(N_Caffe).url
TokModulo == ResourceData(N_Modulo).url
TokOrari == ResourceData(N_Orari).url

P_missing ==
  <<"/", "d", "o", "e", "s", "-", "n", "o", "t", "-", "e", "x", "i", "s", "t">>
P_index_upper ==
  <<"/", "I", "N", "D", "E", "X", ".", "H", "T", "M", "L">>
P_index_mixed ==
  <<"/", "I", "n", "d", "e", "x", ".", "H", "t", "m">>

Paths ==
  { <<"/">>, P_index_upper, P_index_mixed,
    <<"/">> \o TokCaffe, <<"/">> \o Upper(TokCaffe), <<"x">> \o TokCaffe,
    <<"/">> \o TokModulo,
    <<"/">> \o TokOrari, <<"/">> \o Upper(TokOrari),
    <<"/", "x", "/", ".", ".", "/">> \o TokOrari,
    <<"/", ".", ".", "/">> \o TokOrari,
    P_missing, <<"/", "è">> }

Cred(name, password) == Decoded(name \o <<":">> \o password)

GoodHeaders == Authorization(<<BASIC, Cred(U_alice, PW_pw)>>)

BadHeaders ==
  { NoHeaders,
    Authorization(<<BASIC>>),
    Authorization(<<BASIC, Undecodable>>),
    Authorization(<<BASIC, Decoded(U_alice)>>),
    Authorization(<<BASIC, Cred(U_alice, PW_bad)>>),
    Authorization(<<BASIC, Cred(U_bob, PW_pw)>>),
    Authorization(<<BASIC, Cred(U_carol, PW_p_q)>>),
    Authorization(<<BASIC, Cred(U_alice, PW_pw_x)>>) }

\* One handler at a time: every path with good credentials, every other
\* header with the index and a file.
Requests ==
  {[headers |-> GoodHeaders, path |-> p] : p \in Paths}
  \cup {[headers |-> h, path |-> p] : h \in BadHeaders, p \in {<<"/">>, <<"/">> \o TokOrari}}

\* Concurrent handlers: a file, a missing page, and two rejected requests.
ThreadRequests ==
  {[headers |-> GoodHeaders, path |-> p] : p \in {<<"/">> \o TokOrari, P_missing}}
  \cup {[headers |-> h, path |-> <<"/">>] : h \in {NoHeaders, Authorization(<<BASIC>>)}}

Init ==
  /\ InitServer
  /\ worker = [w \in {1} |-> Idle]

Next ==
  \/ \E w \in DOMAIN worker : \E req \in Requests : Receive(w, req)
  \/ \E w \in DOMAIN worker : DoGET(w)
  \/ \E w \in DOMAIN worker : Dispatch(w)
  \/ \E w \in DOMAIN worker : SendHeaders(w)
  \/ \E w \in DOMAIN worker : ReadStream(w)
  \/ \E w \in DOMAIN worker : WriteBody(w)
  \/ \E w \in DOMAIN worker : CloseStream(w)
  \/ \E w \in DOMAIN worker : IOFailure(w)
  \/ \E p \in DOMAIN fs : RemoveFile(p)

Spec == Init /\ [][Next]_vars

InitThreads ==
  /\ InitServer
  /\ worker = [w \in 1..NumWorkers |-> Idle]

NextThreads ==
  \/ \E w \in DOMAIN worker : \E req \in ThreadRequests : Receive(w, req)
  \/ \E w \in DOMAIN worker : DoGET(w)
  \/ \E w \in DOMAIN worker : Dispatch(w)
  \/ \E w \in DOMAIN worker : SendHeaders(w)
  \/ \E w \in DOMAIN worker : ReadStream(w)
  \/ \E w \in DOMAIN worker : WriteBody(w)
  \/ \E w \in DOMAIN worker : CloseStream(w)
  \/ \E w \in DOMAIN worker : IOFailure(w)
  \/ RemoveFile(normpath(P_orari))

SpecThreads == InitThreads /\ [][NextThreads]_vars

----------------------------------------------------------------------------
\* What the claims speak of.

\* A worker's request got past do_GET.
PastAuth(w) == worker[w].pc \notin {"idle", "do_GET"}

\* A worker's request has ended, by a return or by an exception.
Finished(w) == worker[w].pc \in {"done", "error"}

\* A worker holds a resource that dispatch returned.
HasResource(w) == worker[w].result # None

\* The value of a response header.
HeaderValue(response, keyword) ==
  response.headers[CHOOSE i \in 1..Len(response.headers) : response.headers[i][1] = keyword][2]

HasHeader(response, keyword) ==
  \E i \in 1..Len(response.headers) : response.headers[i][1] = keyword

\* needle occurs in hay as a contiguous run.
Contains(hay, needle) ==
  \E i \in 0..(Len(hay) - Len(needle)) : SubSeq(hay, i + 1, i + Len(needle)) = needle

\* A path without its leading slash, if it has one.
StripLeadingSlash(path) == IF path # <<>> /\ path[1] = "/" THEN Tail(path) ELSE path

\* The first entry of a catalog list with the given url token (0: none).
FirstWithUrl(entries, url) ==
  IF \E i \in 1..Len(entries) : entries[i].url = url
  THEN CHOOSE i \in 1..Len(entries) :
         entries[i].url = url /\ \A j \in 1..(i - 1) : entries[j].url # url
  ELSE 0

IndexPaths == {<<"/">>, INDEX_HTML, INDEX_HTM}

\* The rule that applies to a path, with the page and file keys given.
RuleOf(path, pageKey, fileKey) ==
  IF Lower(path) \in IndexPaths THEN [rule |-> "index", entry |-> 0]
  ELSE IF FirstWithUrl(resources.pages, pageKey) # 0
  THEN [rule |-> "page", entry |-> FirstWithUrl(resources.pages, pageKey)]
  ELSE IF FirstWithUrl(resources.files, fileKey) # 0
  THEN [rule |-> "file", entry |-> FirstWithUrl(resources.files, fileKey)]
  ELSE [rule |-> "not-found", entry |-> 0]

\* The rules as first stated: both keys are the path without its leading
\* slash, lower-cased for a page, normalized for a file.
StatedRule(path) ==
  RuleOf(path, StripLeadingSlash(Lower(path)), StripLeadingSlash(normpath(path)))

\* The rules as amended: the page key is the lower-cased path without its
\* first character, the file key is "." + path normalized.
AmendedRule(path) ==
  RuleOf(path, SubSeq(Lower(path), 2, Len(path)), normpath(<<".">> \o path))

\* What a worker's dispatch came to, against a rule.
Resolved(w, r) ==
  LET d == worker[w].result
      e == worker[w].exc
  IN CASE r.rule = "index" ->
            /\ d # None /\ d.code = 200 /\ d.content_type = TEXT_HTML
            /\ d.disposition = INLINE /\ d.resource.name = S_ospedale
            /\ d.resource.stream.kind = "BytesIO"
       [] r.rule = "page" ->
            /\ d # None /\ d.code = 200 /\ d.content_type = TEXT_HTML
            /\ d.disposition = INLINE /\ d.resource.name = resources.pages[r.entry].name
            /\ d.resource.stream.kind = "BytesIO"
       [] r.rule = "file" ->
            \/ /\ d # None /\ d.code = 200 /\ d.content_type = OCTET_STREAM
               /\ d.disposition = ATTACHMENT
               /\ d.resource.name = resources.files[r.entry].name
               /\ d.resource.stream.kind = "file"
               /\ d.resource.stream.name = resources.files[r.entry].path
            \/ /\ d = None /\ worker[w].pc = "error"
               /\ e.exc = "FileNotFoundError"
               /\ e.filename = resources.files[r.entry].path
       [] OTHER ->
            /\ d # None /\ d.code = 404 /\ d.content_type = TEXT_HTML
            /\ d.disposition = INLINE /\ d.resource.stream.kind = "BytesIO"

\* The username and password of a decoded "username:password" text: what is
\* before the first colon, and all that follows it.
FirstColon(text) ==
  CHOOSE k \in 1..Len(text) : text[k] = ":" /\ \A j \in 1..(k - 1) : text[j] # ":"

IsPair(headers) ==
  /\ "Authorization" \in DOMAIN headers
  /\ Len(headers["Authorization"]) >= 2
  /\ headers["Authorization"][2].kind = "str"
  /\ \E k \in 1..Len(headers["Authorization"][2].text) :
       headers["Authorization"][2].text[k] = ":"

UserOf(headers) ==
  LET text == headers["Authorization"][2].text IN SubSeq(text, 1, FirstColon(text) - 1)

PasswordOf(headers) ==
  LET text == headers["Authorization"][2].text
  IN SubSeq(text, FirstColon(text) + 1, Len(text))

\* The credentials name a loaded user and the hash of the whole password is
\* the one stored for that user.
ValidCredentials(headers) ==
  /\ IsPair(headers)
  /\ UserOf(headers) \in DOMAIN resources.users
  /\ resources.users[UserOf(headers)] = sha256(Encode(PasswordOf(headers)))

\* The worker's request was treated as authenticated.
Accepted(w) == worker[w].pc = "dispatch" \/ worker[w].dispatched

----------------------------------------------------------------------------
\* C1

\* C1, as first stated: once dispatch has returned for a request, the result
\* is the one of the first matching rule in the order index, page, file,
\* not-found, where a page matches the lower-cased path without its leading
\* slash and a file matches the normalized path without its leading slash.
C1_Stated ==
  \A w \in DOMAIN worker :
    (worker[w].dispatched /\ HasResource(w)) => Resolved(w, StatedRule(worker[w].path))

\* C1, amended: once dispatch has run for a request, the outcome is the one
\* of the first matching rule in the order index, page, file, not-found,
\* where a page matches the lower-cased path without its first character and
\* a file matches os.path.normpath("." + path); a matched file resolves to
\* (200, application/octet-stream, attachment) over its stored path, or to
\* the FileNotFoundError of that path when the file is gone.
C1_DispatchPrecedence ==
  \A w \in DOMAIN worker :
    worker[w].dispatched => Resolved(w, AmendedRule(worker[w].path))

\* A path whose token is both a page's and a file's resolved to the page.
C1_Witness ==
  \E w \in DOMAIN worker :
    /\ worker[w].dispatched
    /\ worker[w].path = <<"/">> \o TokModulo
    /\ FirstWithUrl(resources.files, TokModulo) # 0
    /\ HasResource(w)
    /\ worker[w].result.resource.name = N_Modulo

----------------------------------------------------------------------------
\* C2

\* C2: a request whose credentials are missing or invalid is answered with
\* 401, the WWW-Authenticate header for the realm and no body, without
\* dispatch having run or a stream having been opened; and dispatch runs only
\* after authentication returned true.
C2_Unauthenticated401 ==
  \A w \in DOMAIN worker :
    /\ (PastAuth(w) /\ ~ValidCredentials(worker[w].headers)) =>
         /\ worker[w].pc = "done"
         /\ worker[w].response # None
         /\ worker[w].response.status = 401
         /\ HasHeader(worker[w].response, "WWW-Authenticate")
         /\ HeaderValue(worker[w].response, "WWW-Authenticate")
              = BASIC_REALM \o resources.realm \o <<"\"">>
         /\ worker[w].response.body = <<>>
         /\ ~worker[w].dispatched
         /\ ~HasResource(w)
    /\ worker[w].dispatched =>
         client_is_authenticated(resources, worker[w].headers)
           = [kind |-> "return", value |-> TRUE]

----------------------------------------------------------------------------
\* C3

\* C3: a request carrying "username:password" is treated as authenticated
\* exactly when the username is a loaded user and the hash of the whole
\* password equals the hash stored for that user.
C3_AuthenticatedIffHashMatches ==
  \A w \in DOMAIN worker :
    (PastAuth(w) /\ IsPair(worker[w].headers)) =>
      (Accepted(w) <=> ValidCredentials(worker[w].headers))

----------------------------------------------------------------------------
\* C4

\* C4: the response to a request that resolved to a file has status 200 and a
\* Content-length that is the decimal size in bytes of the file, and the
\* body, once written, has that many bytes.
C4_FileContentLength ==
  \A w \in DOMAIN worker :
    (HasResource(w) /\ worker[w].result.resource.stream.kind = "file"
       /\ worker[w].response # None) =>
      /\ worker[w].response.status = 200
      /\ HeaderValue(worker[w].response, "Content-length")
           = Decimal(Len(worker[w].result.resource.stream.data))
      /\ worker[w].pc \in {"close", "done"} =>
           Len(worker[w].response.body) = Len(worker[w].result.resource.stream.data)

----------------------------------------------------------------------------
\* C5

\* C5: no request has ended, by a return or by an exception, with the stream
\* that dispatch opened for it still open.
C5_StreamReleased ==
  \A w \in DOMAIN worker :
    (Finished(w) /\ HasResource(w)) => worker[w].result.resource.stream.closed

----------------------------------------------------------------------------
\* C6

\* C6: the only paths given to os.stat/open while handling requests are the
\* stored paths of the catalog's file entries.
C6_OnlyCatalogPaths ==
  fsOps \subseteq {resources.files[i].path : i \in 1..Len(resources.files)}

\* A request path with ".." segments led to a file being opened.
C6_Witness ==
  \E w \in DOMAIN worker :
    /\ worker[w].path = <<"/", "x", "/", ".", ".", "/">> \o TokOrari
    /\ HasResource(w)
    /\ worker[w].result.resource.stream.kind = "file"
    /\ worker[w].result.resource.stream.name \in fsOps

----------------------------------------------------------------------------
\* C7

\* What a request receives when it is handled alone over the catalog and the
\* files of startup: nothing when authentication raises, the 401 when it
\* fails, else the head for the dispatch result and the resource's bytes.
Alone(req) ==
  LET startup == ResourceProvider(Config, InitFs)
      a == client_is_authenticated(startup, req.headers)
  IN IF a.kind = "raise" THEN None
     ELSE IF ~a.value THEN request_authentication(startup)
     ELSE LET d == dispatch(startup, req.path, InitFs)
          IN [response_head(d) EXCEPT !.body = d.resource.stream.data]

AloneTable == [req \in Requests \cup ThreadRequests |-> Alone(req)]

RequestOf(w) == [headers |-> worker[w].headers, path |-> worker[w].path]

\* C7: whatever errors other requests meet, the server is still serving, the
\* catalog and the credential table are those of startup, and what a request
\* has received so far is what it receives when handled alone: the same
\* status and headers, and the same body once written.
C7_Isolation ==
  /\ serverUp
  /\ resources = ResourceProvider(Config, InitFs)
  /\ \A w \in DOMAIN worker :
       worker[w].response # None =>
         LET alone == AloneTable[RequestOf(w)] IN
         /\ alone # None
         /\ worker[w].response.status = alone.status
         /\ worker[w].response.headers = alone.headers
         /\ worker[w].response.body \in {<<>>, alone.body}
         /\ worker[w].pc = "done" => worker[w].response.body = alone.body

\* A request for a file ended in FileNotFoundError in one thread, a request
\* with a malformed header ended in an exception in another or the file was
\* served in full by another, and all stands as before.
C7_Witness ==
  \E w1, w2 \in DOMAIN worker :
    /\ w1 # w2
    /\ worker[w1].pc = "error"
    /\ worker[w1].exc.exc = "FileNotFoundError"
    /\ worker[w2].pc = "done"
    /\ worker[w2].response.status = 200
    /\ worker[w2].path = worker[w1].path

----------------------------------------------------------------------------
\* C8

\* C8: the Content-length sent for a resource built from generated html is
\* the decimal number of bytes of its UTF-8 encoding, which is the number of
\* bytes written as the body.
C8_HtmlContentLength ==
  \A w \in DOMAIN worker :
    (HasResource(w) /\ worker[w].result.resource.stream.kind = "BytesIO"
       /\ worker[w].response # None) =>
      /\ HeaderValue(worker[w].response, "Content-length")
           = Decimal(Len(worker[w].result.resource.stream.data))
      /\ worker[w].pc \in {"close", "done"} =>
           Len(worker[w].response.body) = Len(worker[w].result.resource.stream.data)

----------------------------------------------------------------------------
\* C9

\* C9: a request whose path matches none of the index, page and file rules
\* resolves to 404, text/html, inline over generated html, no file being
\* opened for it, and the body written contains the bytes of the path exactly
\* as received.
C9_NotFound ==
  \A w \in DOMAIN worker :
    (worker[w].dispatched /\ AmendedRule(worker[w].path).rule = "not-found") =>
      /\ HasResource(w)
      /\ worker[w].exc = None \/ worker[w].exc.exc = "OSError"
      /\ worker[w].result.code = 404
      /\ worker[w].result.content_type = TEXT_HTML
      /\ worker[w].result.disposition = INLINE
      /\ worker[w].result.resource.stream.kind = "BytesIO"
      /\ Contains(worker[w].result.resource.stream.data, Encode(worker[w].path))
      /\ worker[w].response # None =>
           /\ worker[w].response.status = 404
           /\ HeaderValue(worker[w].response, "Content-type") = TEXT_HTML
           /\ HeaderValue(worker[w].response, "Content-Disposition")
                = INLINE \o FILENAME \o S_pagina_sconosciuta \o <<"\"">>
      /\ worker[w].pc \in {"close", "done"} =>
           Contains(worker[w].response.body, Encode(worker[w].path))

\* The 404 for /does-not-exist was sent in full.
C9_Witness ==
  \E w \in DOMAIN worker :
    /\ worker[w].pc = "done"
    /\ worker[w].path = P_missing
    /\ worker[w].response.status = 404
    /\ Contains(worker[w].response.body, Encode(P_missing))

----------------------------------------------------------------------------
\* C10

\* C10: while a file-backed resource is sent, the worker never holds more
\* than ChunkBound bytes of the file in memory.
C10_BoundedChunks ==
  \A w \in DOMAIN worker :
    (HasResource(w) /\ worker[w].result.resource.stream.kind = "file") =>
      Len(worker[w].buf) <= ChunkBound

====
